---- MODULE Spec2Model ----
(***************************************************************************)
(* URL indexing service of ConHub (ai-service/app/services/url_indexer.py) *)
(* as a state machine.  One asyncio event loop runs the request handlers   *)
(* (start_url_indexing, get_job_status, get_job_results, list_jobs) and    *)
(* the background tasks (_index_urls_background).  Code between two        *)
(* suspension points (session.get, session.close) runs atomically, so one  *)
(* action is one such stretch of code.  The vector store                   *)
(* (ai-service/app/services/vector_store_service.py) runs on the same      *)
(* loop; its methods have no suspension point, so each call is one action. *)
(***************************************************************************)
EXTENDS Integers, Sequences, FiniteSets, TLC

VARIABLES
    indexing_jobs,   \* URLIndexingService.indexing_jobs: records in insertion order
    tasks,           \* the asyncio task of each job, in creation order
    web,             \* what the fetch capability answers for each URL
    ret,             \* the handler call made by the last step, and what it returned
    documents,       \* VectorStoreService.documents: Documents in insertion order
    embeddings,      \* VectorStoreService.embeddings: (id, embedding) in insertion order
    hash             \* the interpreter's str hash, fixed for the life of the process

vars == <<indexing_jobs, tasks, web, documents, embeddings, hash, ret>>

\* the state of the vector store
index == <<documents, embeddings, hash>>

----------------------------------------------------------------------------
(* Bounds of the model *)

MaxJobs == 2         \* jobs started in one run
MaxSeeds == 2        \* seed URLs of one job
MaxSeedsLong == 6    \* seed URLs of the single job of SpecLong
MaxSeedsCrawl == 2   \* seed URLs of the single job of SpecCrawl

----------------------------------------------------------------------------
(* URLs, pages and configurations *)

\* Optional values: None is the empty sequence, a value x is <<x>>
None == <<>>
Some(x) == <<x>>

URLS == {"http://a.test/", "http://b.test/", "http://c.test/", "http://d.test/",
         "http://A.TEST/", "http://sub.a.test/", "http://xa.test/", "http://[x"}

\* the URLs callers submit as seeds
SeedURLS == {"http://a.test/", "http://[x"}

\* urlparse(url) raises ValueError on an unbalanced IPv6 bracket
UrlparseRaises(url) == url = "http://[x"

\* Strings that the code takes apart are sequences of characters.
Chars(str) ==
    CASE str = "a.test" -> <<"a", ".", "t", "e", "s", "t">>
      [] str = "b.test" -> <<"b", ".", "t", "e", "s", "t">>
      [] str = "c.test" -> <<"c", ".", "t", "e", "s", "t">>
      [] str = "d.test" -> <<"d", ".", "t", "e", "s", "t">>
      [] str = "A.TEST" -> <<"A", ".", "T", "E", "S", "T">>
      [] str = "A.Test" -> <<"A", ".", "T", "e", "s", "t">>
      [] str = "sub.a.test" -> <<"s", "u", "b", ".", "a", ".", "t", "e", "s", "t">>
      [] str = "xa.test" -> <<"x", "a", ".", "t", "e", "s", "t">>
      [] OTHER -> <<>>

\* str.lower()
LowerChar(c) ==
    CASE c = "A" -> "a"
      [] c = "T" -> "t"
      [] c = "E" -> "e"
      [] c = "S" -> "s"
      [] c = "X" -> "x"
      [] OTHER -> c

Lower(s) == [k \in DOMAIN s |-> LowerChar(s[k])]

\* urlparse(url).netloc, as written in the URL
Netloc(url) ==
    CASE url = "http://a.test/" -> Chars("a.test")
      [] url = "http://b.test/" -> Chars("b.test")
      [] url = "http://c.test/" -> Chars("c.test")
      [] url = "http://d.test/" -> Chars("d.test")
      [] url = "http://A.TEST/" -> Chars("A.TEST")
      [] url = "http://sub.a.test/" -> Chars("sub.a.test")
      [] url = "http://xa.test/" -> Chars("xa.test")
      [] OTHER -> <<>>

\* an answer of the fetch capability for one URL: kind is html (status 200,
\* text/html), non200, nonhtml or neterr (session.get raised)
Page(kind, links) == [kind |-> kind, links |-> links]

PageOptions(url) ==
    CASE url = "http://a.test/" ->
             {Page("html", {"http://b.test/"}), Page("html", {}),
              Page("non200", {}), Page("nonhtml", {})}
      [] url = "http://[x" -> {Page("neterr", {})}     \* aiohttp raises InvalidURL
      [] OTHER -> {Page("html", {})}

Webs == {w \in [URLS -> UNION {PageOptions(u) : u \in URLS}] :
            \A u \in URLS : w[u] \in PageOptions(u)}

\* the link graphs of SpecCrawl: a tree (a -> b, c; b -> d), a cycle
\* (a -> b -> a), a tree whose leaves fail, a diamond over a page that fails
\* (a -> b, c; b -> d; c -> d), and a seed that fails
CrawlPage(graph, url) ==
    CASE url = "http://[x" -> Page("neterr", {})
      [] graph = "tree" /\ url = "http://a.test/" ->
             Page("html", {"http://b.test/", "http://c.test/"})
      [] graph = "tree" /\ url = "http://b.test/" -> Page("html", {"http://d.test/"})
      [] graph = "cycle" /\ url = "http://a.test/" -> Page("html", {"http://b.test/"})
      [] graph = "cycle" /\ url = "http://b.test/" -> Page("html", {"http://a.test/"})
      [] graph = "leaves" /\ url = "http://a.test/" ->
             Page("html", {"http://b.test/", "http://c.test/", "http://sub.a.test/"})
      [] graph = "leaves" /\ url = "http://b.test/" -> Page("non200", {})
      [] graph = "leaves" /\ url = "http://c.test/" -> Page("nonhtml", {})
      [] graph = "diamond" /\ url = "http://a.test/" ->
             Page("html", {"http://b.test/", "http://c.test/"})
      [] graph = "diamond" /\ url \in {"http://b.test/", "http://c.test/"} ->
             Page("html", {"http://d.test/"})
      [] graph = "diamond" /\ url = "http://d.test/" -> Page("neterr", {})
      [] graph = "down" /\ url = "http://a.test/" -> Page("non200", {})
      [] OTHER -> Page("html", {})

CrawlWebs == {[url \in URLS |-> CrawlPage(graph, url)] :
                 graph \in {"tree", "cycle", "leaves", "diamond", "down"}}

Config(depth, domains) == [crawl_depth |-> depth, allowed_domains |-> domains]

\* a config dict: each key is absent (None) or present (Some(value))
Configs == {Config(None, None), Config(Some(-1), None),
            Config(Some(0), Some(<<"a.test">>))}

\* the configs of SpecCrawl: every depth from -1 to 2, with no filter, an
\* empty filter, and filters that differ from the hosts in case
CrawlConfigs == {Config(Some(depth), domains) :
                    depth \in -1..2,
                    domains \in {None, Some(<<>>), Some(<<"A.Test">>),
                                 Some(<<"b.test", "a.test">>)}}

\* the seeds of SpecCrawl
CrawlSeedURLS == {"http://a.test/", "http://b.test/", "http://A.TEST/",
                  "http://sub.a.test/", "http://xa.test/", "http://[x"}

\* seed lists of at most n URLs
SeedLists(n) == UNION {[1..k -> SeedURLS] : k \in 0..n}

----------------------------------------------------------------------------
(* Python helpers *)

\* dict.get(key, default)
Get(config, key, default) == IF config[key] = None THEN default ELSE config[key][1]

\* seq[:n] where the code has seq[-n:]
LastN_first(seq, n) ==
    IF Len(seq) <= n THEN seq ELSE SubSeq(seq, 1, n)

\* seq[-n:]
LastN(seq, n) ==
    IF Len(seq) <= n THEN seq ELSE SubSeq(seq, Len(seq) - n + 1, Len(seq))

\* s.endswith(suffix)
EndsWith(s, suffix) ==
    /\ Len(s) >= Len(suffix)
    /\ SubSeq(s, Len(s) - Len(suffix) + 1, Len(s)) = suffix

Min(a, b) == IF a <= b THEN a ELSE b

IsPrefix(s, t) == Len(s) <= Len(t) /\ SubSeq(t, 1, Len(s)) = s

----------------------------------------------------------------------------
(* URLIndexer: the crawler *)

\* an exception-or-value outcome of a call
Raise(e) == [raised |-> TRUE, exc |-> e, value |-> None]
Return(v) == [raised |-> FALSE, exc |-> "", value |-> Some(v)]

\* the suffix test without the dot in front of the allowed domain
_is_allowed_domain_suffix(url, allowed_domains) ==
    IF UrlparseRaises(url) THEN Raise("ValueError")
    ELSE LET domain == Lower(Netloc(url))
         IN  Return(\E k \in DOMAIN allowed_domains :
                        EndsWith(domain, Lower(Chars(allowed_domains[k]))))

\* URLIndexer._is_allowed_domain
_is_allowed_domain(url, allowed_domains) ==
    IF UrlparseRaises(url) THEN Raise("ValueError")
    ELSE LET domain == Lower(Netloc(url))
         IN  Return(\E k \in DOMAIN allowed_domains :
                        \/ domain = Lower(Chars(allowed_domains[k]))
                        \/ EndsWith(domain, <<".">> \o Lower(Chars(allowed_domains[k]))))

\* the content type is not looked at: any 200 answer becomes a document
_crawl_single_url_any_type(url, page, id) ==
    IF page.kind = "neterr" THEN None
    ELSE IF page.kind = "non200" THEN None
    ELSE Some([id |-> id, url |-> url, raw_html |-> page.links])

\* URLIndexer._crawl_single_url: the document, or None; every exception of
\* the fetch is caught and logged there.  raw_html is kept as the set of
\* absolute targets of the page's <a href> anchors.
_crawl_single_url(url, page, id) ==
    IF page.kind = "neterr" THEN None
    ELSE IF page.kind = "non200" THEN None
    ELSE IF page.kind = "nonhtml" THEN None
    ELSE Some([id |-> id, url |-> url, raw_html |-> page.links])

\* URLIndexer._extract_links: the loop body reads the undefined name _url, so
\* the first anchor raises NameError; a page without anchors gives [].
_extract_links(base_url, html_content) ==
    IF html_content # {} THEN Raise("NameError") ELSE Return(<<>>)

----------------------------------------------------------------------------
(* The background task of a job.  m = [t |-> task, job |-> job record]:     *)
(* the task's frame and the job dict it holds a reference to.               *)

ErrorMsg(msg, url, e) == [msg |-> msg, url |-> url, e |-> e]

\* asyncio.create_task(self._index_urls_background(job_id, urls, config)).
\* Besides the frame, the task record keeps three logs of what the task did:
\* fetched (the calls of session.get), extracted (the calls of
\* _extract_links) and returned (what each index_url call returned, and its
\* processed_urls at that moment).
create_task(job_id, urls, config) ==
    [job_id |-> job_id, urls |-> urls, config |-> config,
     pc |-> "scheduled", i |-> 0,
     urls_to_process |-> <<>>, processed_urls |-> {}, indexed_documents |-> <<>>,
     current |-> [url |-> "", depth |-> 0],
     exc |-> "", fetched |-> <<>>, extracted |-> <<>>, returned |-> <<>>]

max_depth(t) == Get(t.config, "crawl_depth", 1)
allowed_domains(t) == Get(t.config, "allowed_domains", <<>>)

\* the task ends without line 232
job_completed_unmarked(m) ==
    [m EXCEPT !.t.pc = "done"]

\* lines 232: the async with block was left without an exception
job_completed(m) ==
    [m EXCEPT !.job.status = "completed", !.t.pc = "done"]

\* the failure handler without the append of line 236
job_failed_silent(m, e) ==
    [m EXCEPT !.job.status = "failed", !.t.pc = "done", !.t.exc = e]

\* lines 234-237: except Exception as e
job_failed(m, e) ==
    [m EXCEPT !.job.status = "failed",
              !.job.errors = Append(@, ErrorMsg("Job failed", "", e)),
              !.t.pc = "done", !.t.exc = e]

\* an assignment job["results"] = documents where the code extends
extend_results_overwrite(m) ==
    [m EXCEPT !.job.results = m.t.indexed_documents,
              !.t.returned = Append(@, [seed |-> m.t.i, documents |-> m.t.indexed_documents,
                                          visited |-> m.t.processed_urls]),
              !.t.i = @ + 1]

\* the documents of a seed are put in front of those of the seeds before it
extend_results_prepend(m) ==
    [m EXCEPT !.job.results = m.t.indexed_documents \o @,
              !.t.returned = Append(@, [seed |-> m.t.i, documents |-> m.t.indexed_documents,
                                          visited |-> m.t.processed_urls]),
              !.t.i = @ + 1]

\* line 223: job["results"].extend(documents), then the next seed
extend_results(m) ==
    [m EXCEPT !.job.results = @ \o m.t.indexed_documents,
              !.t.returned = Append(@, [seed |-> m.t.i, documents |-> m.t.indexed_documents,
                                          visited |-> m.t.processed_urls]),
              !.t.i = @ + 1]

\* the handler of a seed's exception also marks the job failed
record_url_error_fatal(m, e) ==
    [m EXCEPT !.job.status = "failed",
              !.job.errors = Append(@, ErrorMsg("Failed to index", m.t.urls[m.t.i], e)),
              !.t.exc = e,
              !.t.i = @ + 1]

\* lines 227-230: except Exception as e, then the next seed
record_url_error(m, e) ==
    [m EXCEPT !.job.errors = Append(@, ErrorMsg("Failed to index", m.t.urls[m.t.i], e)),
              !.t.i = @ + 1]

\* lines 61-63: enqueue the links that are not processed yet
enqueue_links(m, links, depth) ==
    LET new == SelectSeq(links, LAMBDA l : l \notin m.t.processed_urls)
    IN  [m EXCEPT !.t.urls_to_process =
                      @ \o [k \in 1..Len(new) |-> [url |-> new[k], depth |-> depth + 1]]]

\* the task suspends in session.get(url)
suspend_fetch(m, cur) ==
    [m EXCEPT !.t.pc = "fetching", !.t.current = cur]

\* line 232 moved into the async with block: completed before the close
suspend_close_completed(m, e) ==
    [m EXCEPT !.t.pc = "closing", !.t.exc = e, !.job.status = "completed"]

\* __aexit__: the task suspends in session.close()
suspend_close(m, e) ==
    [m EXCEPT !.t.pc = "closing", !.t.exc = e]

RECURSIVE for_urls(_), while_urls(_)

\* index_url keeping its list of documents from one call to the next
for_urls_shared(m) ==
    IF m.t.i > Len(m.t.urls) THEN suspend_close(m, "")
    ELSE while_urls([m EXCEPT
             !.t.urls_to_process = <<[url |-> m.t.urls[m.t.i], depth |-> 0]>>,
             !.t.processed_urls = {}])

\* lines 217-222: top of `for url in urls`, entering index_url (lines 36-41)
for_urls(m) ==
    IF m.t.i > Len(m.t.urls) THEN suspend_close(m, "")
    ELSE while_urls([m EXCEPT
             !.t.urls_to_process = <<[url |-> m.t.urls[m.t.i], depth |-> 0]>>,
             !.t.processed_urls = {},
             !.t.indexed_documents = <<>>])

\* lines 43-50 and 69: top of `while urls_to_process`, up to the next fetch
while_urls(m) ==
    IF m.t.urls_to_process = <<>> THEN for_urls(extend_results(m))
    ELSE LET cur == Head(m.t.urls_to_process)
             m1 == [m EXCEPT !.t.urls_to_process = Tail(@)]
         IN  IF cur.url \in m.t.processed_urls \/ cur.depth > max_depth(m.t)
               THEN while_urls(m1)
             ELSE IF allowed_domains(m.t) # <<>>
               THEN LET r == _is_allowed_domain(cur.url, allowed_domains(m.t))
                    IN  IF r.raised THEN for_urls(record_url_error(m1, r.exc))
                        ELSE IF ~r.value[1] THEN while_urls(m1)
                        ELSE suspend_fetch(m1, cur)
             ELSE suspend_fetch(m1, cur)

\* an entry of the task's fetch log: the URL handed to session.get, the seed
\* and depth it was reached from, and how the fetch ended
Fetched(t, kind) ==
    [url |-> t.current.url, depth |-> t.current.depth, seed |-> t.i, kind |-> kind]

\* line 96: uuid4() gives a value no other call gives; here the drawing task
\* and the number of its fetch
uuid4(t) == <<t.job_id, Len(t.fetched) + 1>>

\* a failed fetch raises out of index_url instead of returning None
after_fetch_abort(m, page) ==
    LET cur == m.t.current
        document == _crawl_single_url(cur.url, page, uuid4(m.t))
        m0 == [m EXCEPT !.t.fetched = Append(@, Fetched(m.t, page.kind))]
    IN  IF page.kind \in {"neterr", "non200"}
          THEN for_urls(record_url_error(m0, "ClientError"))
        ELSE IF document = None THEN while_urls(m0)
        ELSE LET m1 == [m0 EXCEPT !.t.indexed_documents = Append(@, document[1]),
                                  !.t.processed_urls = @ \cup {cur.url}]
             IN  IF cur.depth < max_depth(m.t)
                   THEN LET r == _extract_links(cur.url, document[1].raw_html)
                            m2 == [m1 EXCEPT !.t.extracted = Append(@, Fetched(m.t, "links"))]
                        IN  IF r.raised THEN while_urls(m2)
                            ELSE while_urls(enqueue_links(m2, r.value[1], cur.depth))
                 ELSE while_urls(m1)

\* links extracted also from a page at depth max_depth
after_fetch_at_limit(m, page) ==
    LET cur == m.t.current
        document == _crawl_single_url(cur.url, page, uuid4(m.t))
        m0 == [m EXCEPT !.t.fetched = Append(@, Fetched(m.t, page.kind))]
    IN  IF document = None THEN while_urls(m0)
        ELSE LET m1 == [m0 EXCEPT !.t.indexed_documents = Append(@, document[1]),
                                  !.t.processed_urls = @ \cup {cur.url}]
             IN  IF cur.depth <= max_depth(m.t)
                   THEN LET r == _extract_links(cur.url, document[1].raw_html)
                            m2 == [m1 EXCEPT !.t.extracted = Append(@, Fetched(m.t, "links"))]
                        IN  IF r.raised THEN while_urls(m2)
                            ELSE while_urls(enqueue_links(m2, r.value[1], cur.depth))
                 ELSE while_urls(m1)

\* every document is also appended to job["results"] as soon as it is
\* fetched, before index_url returns its batch
after_fetch_streaming(m, page) ==
    LET cur == m.t.current
        document == _crawl_single_url(cur.url, page, uuid4(m.t))
        m0 == [m EXCEPT !.t.fetched = Append(@, Fetched(m.t, page.kind))]
    IN  IF document = None THEN while_urls(m0)
        ELSE LET m1 == [m0 EXCEPT !.t.indexed_documents = Append(@, document[1]),
                                  !.t.processed_urls = @ \cup {cur.url},
                                  !.job.results = Append(@, document[1])]
             IN  IF cur.depth < max_depth(m.t)
                   THEN LET r == _extract_links(cur.url, document[1].raw_html)
                            m2 == [m1 EXCEPT !.t.extracted = Append(@, Fetched(m.t, "links"))]
                        IN  IF r.raised THEN while_urls(m2)
                            ELSE while_urls(enqueue_links(m2, r.value[1], cur.depth))
                 ELSE while_urls(m1)

\* a fetch that gives no document ends the task inside index_url
after_fetch_unfinished(m, page) ==
    LET cur == m.t.current
        document == _crawl_single_url(cur.url, page, uuid4(m.t))
        m0 == [m EXCEPT !.t.fetched = Append(@, Fetched(m.t, page.kind))]
    IN  IF document = None THEN [m0 EXCEPT !.t.pc = "done"]
        ELSE LET m1 == [m0 EXCEPT !.t.indexed_documents = Append(@, document[1]),
                                  !.t.processed_urls = @ \cup {cur.url}]
             IN  IF cur.depth < max_depth(m.t)
                   THEN LET r == _extract_links(cur.url, document[1].raw_html)
                            m2 == [m1 EXCEPT !.t.extracted = Append(@, Fetched(m.t, "links"))]
                        IN  IF r.raised THEN while_urls(m2)
                            ELSE while_urls(enqueue_links(m2, r.value[1], cur.depth))
                 ELSE while_urls(m1)

\* lines 53-67: session.get answered with page
after_fetch(m, page) ==
    LET cur == m.t.current
        document == _crawl_single_url(cur.url, page, uuid4(m.t))
        m0 == [m EXCEPT !.t.fetched = Append(@, Fetched(m.t, page.kind))]
    IN  IF document = None THEN while_urls(m0)
        ELSE LET m1 == [m0 EXCEPT !.t.indexed_documents = Append(@, document[1]),
                                  !.t.processed_urls = @ \cup {cur.url}]
             IN  IF cur.depth < max_depth(m.t)
                   THEN LET r == _extract_links(cur.url, document[1].raw_html)
                            m2 == [m1 EXCEPT !.t.extracted = Append(@, Fetched(m.t, "links"))]
                        IN  IF r.raised THEN while_urls(m2)
                            ELSE while_urls(enqueue_links(m2, r.value[1], cur.depth))
                 ELSE while_urls(m1)

\* the failure of __aenter__ handled inside the block: the loop still runs
enter_session_goes_on(m, opened) ==
    IF opened THEN for_urls([m EXCEPT !.t.i = 1])
    ELSE for_urls([m EXCEPT !.job.status = "failed",
                            !.job.errors = Append(@, ErrorMsg("Job failed", "", "ClientSessionError")),
                            !.t.i = 1])

\* lines 215-216: URLIndexer.__aenter__ opens the session, or raises
enter_session(m, opened) ==
    IF opened THEN for_urls([m EXCEPT !.t.i = 1])
    ELSE job_failed(m, "ClientSessionError")

\* lines 30-32 then 232-237: session.close() returned or raised
after_close(m, closed) ==
    IF ~closed THEN job_failed(m, "CloseError")
    ELSE IF m.t.exc = "CancelledError" THEN [m EXCEPT !.t.pc = "cancelled"]
    ELSE job_completed(m)

\* task.cancel(): CancelledError is raised at the await the task is suspended
\* in; it is a BaseException, so no `except Exception` of the task catches it
cancelled(m) ==
    IF m.t.pc = "fetching"
      THEN suspend_close([m EXCEPT !.t.fetched = Append(@, Fetched(m.t, "cancelled"))],
                         "CancelledError")
    ELSE [m EXCEPT !.t.pc = "cancelled", !.t.exc = "CancelledError"]

----------------------------------------------------------------------------
(* URLIndexingService: the job table and its handlers *)

\* position of job_id in the insertion-ordered dict, 0 when it is not a key
JobIndex(jobs, job_id) ==
    IF \E k \in DOMAIN jobs : jobs[k].id = job_id
      THEN CHOOSE k \in DOMAIN jobs : jobs[k].id = job_id
    ELSE 0

\* lines 199-207: the job dict; task is the position of the handle in tasks
new_job(job_id, urls, config, task) ==
    [id |-> job_id, status |-> "running", urls |-> urls, config |-> config,
     task |-> task, results |-> <<>>, errors |-> <<>>]

\* the record is not in the table when start returns
store_job_lost(jobs, job) == jobs

\* the new record is put in front of the older ones
store_job_prepend(jobs, job) == <<job>> \o jobs

\* line 199: self.indexing_jobs[job_id] = {...}
store_job(jobs, job) ==
    IF JobIndex(jobs, job.id) = 0 THEN Append(jobs, job)
    ELSE [jobs EXCEPT ![JobIndex(jobs, job.id)] = job]

\* lines 239-252
get_job_status(jobs, job_id) ==
    IF JobIndex(jobs, job_id) = 0 THEN None
    ELSE LET job == jobs[JobIndex(jobs, job_id)]
         IN  Some([id |-> job.id,
                   status |-> job.status,
                   urls_count |-> Len(job.urls),
                   documents_indexed |-> Len(job.results),
                   errors_count |-> Len(job.errors),
                   errors |-> LastN(job.errors, 5)])

\* an unknown id answered with an empty list
get_job_results_empty(jobs, job_id) ==
    IF JobIndex(jobs, job_id) = 0 THEN Some(<<>>)
    ELSE Some(jobs[JobIndex(jobs, job_id)].results)

\* lines 254-260
get_job_results(jobs, job_id) ==
    IF JobIndex(jobs, job_id) = 0 THEN None
    ELSE Some(jobs[JobIndex(jobs, job_id)].results)

\* lines 262-273
list_jobs(jobs) ==
    [k \in DOMAIN jobs |->
        [id |-> jobs[k].id,
         status |-> jobs[k].status,
         urls_count |-> Len(jobs[k].urls),
         documents_indexed |-> Len(jobs[k].results),
         errors_count |-> Len(jobs[k].errors)]]

Called(op, args, value) == [op |-> op, args |-> args, value |-> value]
NoCall == Called("", <<>>, None)

\* every task holding the first job dict of the table
Frame_first(k) == [t |-> tasks[k], job |-> indexing_jobs[1]]

\* the frame of task k and the job dict it refers to
Frame(k) == [t |-> tasks[k], job |-> indexing_jobs[JobIndex(indexing_jobs, tasks[k].job_id)]]

\* write the frame back: the job dict is shared with the table
Commit(k, m) ==
    /\ tasks' = [tasks EXCEPT ![k] = m.t]
    /\ indexing_jobs' = [indexing_jobs EXCEPT ![JobIndex(indexing_jobs, m.job.id)] = m.job]

----------------------------------------------------------------------------
(* VectorStoreService: the vector index.  A dict is the sequence of its     *)
(* entries in insertion order; every entry has the field id, its key.       *)

\* document ids, contents, queries, metadata and values of k given by callers
DocIds == {"d1", "d2", "d3"}
Contents == {"", "x", "X y"}
Queries == {"", "x", "y x"}
Metadata == {[source_type |-> "url"], [source_type |-> "file"]}
Ks == {-1, 0, 2, 5}

\* text.split(): the words of a text
Split(text) ==
    CASE text = "x" -> <<"x">>
      [] text = "X y" -> <<"X", "y">>
      [] text = "y x" -> <<"y", "x">>
      [] OTHER -> <<>>

Vocabulary == {"x", "y"}

\* hash(word) for the two ways a process can turn out: the words fall into
\* different slots, or into the same slot (-383 % 384 = 1)
HashFunctions == {[word \in Vocabulary |-> IF word = "x" THEN 1 ELSE 2],
                  [word \in Vocabulary |-> IF word = "x" THEN 1 ELSE -383]}

\* line 100: the embedding dimension; line 102: the words that count
EmbeddingDim == 384
MaxWordsEmbedded == 50

\* weights are kept in units of 1/WeightUnit, so 1/(i + 1) is an integer for
\* the first three words
WeightUnit == 6

RECURSIVE SumOver(_, _)
SumOver(f, S) ==
    IF S = {} THEN 0
    ELSE LET x == CHOOSE x \in S : TRUE
         IN  f[x] + SumOver(f, S \ {x})

RECURSIVE GCD(_, _)
GCD(a, b) == IF b = 0 THEN a ELSE GCD(b, a % b)

\* sum(x * x for x in vec), of a vector given by its non-zero slots
SumSquares(vec) == SumOver([slot \in DOMAIN vec |-> vec[slot] * vec[slot]], DOMAIN vec)

\* VectorStoreService._generate_simple_embedding, lines 95-111: vec holds the
\* non-zero slots before the normalisation and norm2 the square of the norm
\* they are divided by: the embedding is vec / sqrt(norm2), or all zeros
_generate_simple_embedding(h, text) ==
    LET split == Split(text)
        words == [i \in 1..Min(Len(split), MaxWordsEmbedded) |-> LowerChar(split[i])]
        slot(i) == h[words[i]] % EmbeddingDim
        slots == {slot(i) : i \in DOMAIN words}
        vec == [sl \in slots |->
                   SumOver([i \in DOMAIN words |-> WeightUnit \div i],
                           {i \in DOMAIN words : slot(i) = sl})]
    IN  [vec |-> vec, norm2 |-> SumSquares(vec)]

\* a similarity: the non-negative number whose square is num / den, in
\* lowest terms
Score(num, den) ==
    IF num = 0 THEN [num |-> 0, den |-> 1]
    ELSE [num |-> num \div GCD(num, den), den |-> den \div GCD(num, den)]

\* the similarity without the test of line 119: 0.0 / 0.0, not a number
_cosine_similarity_unguarded(vec1, vec2) ==
    LET common == DOMAIN vec1.vec \cap DOMAIN vec2.vec
        dot_product == SumOver([sl \in common |-> vec1.vec[sl] * vec2.vec[sl]], common)
    IN  IF vec1.norm2 = 0 \/ vec2.norm2 = 0 THEN [num |-> 0, den |-> 0]
        ELSE Score(dot_product * dot_product, vec1.norm2 * vec2.norm2)

\* VectorStoreService._cosine_similarity, lines 113-122.  Both vectors are
\* normalised or zero, so the magnitudes are 1 or 0 and the dot product is
\* dot(vec1.vec, vec2.vec) / sqrt(vec1.norm2 * vec2.norm2)
_cosine_similarity(vec1, vec2) ==
    LET common == DOMAIN vec1.vec \cap DOMAIN vec2.vec
        dot_product == SumOver([sl \in common |-> vec1.vec[sl] * vec2.vec[sl]], common)
    IN  IF vec1.norm2 = 0 \/ vec2.norm2 = 0 THEN Score(0, 1)
        ELSE Score(dot_product * dot_product, vec1.norm2 * vec2.norm2)

\* a >= b for similarities
AtLeast(a, b) == a.num * b.den >= b.num * a.den

\* position of key in the dict, 0 when it is not a key
KeyIndex(dict, key) ==
    IF \E n \in DOMAIN dict : dict[n].id = key
      THEN CHOOSE n \in DOMAIN dict : dict[n].id = key
    ELSE 0

\* dict[entry.id] = entry: a key the dict has keeps its place
DictSet(dict, entry) ==
    IF KeyIndex(dict, entry.id) = 0 THEN Append(dict, entry)
    ELSE [dict EXCEPT ![KeyIndex(dict, entry.id)] = entry]

\* del dict[key]
DictDel(dict, key) == SelectSeq(dict, LAMBDA entry : entry.id # key)

\* Document(...) without embedding=embedding: the field stays empty
Document_unembedded(doc_id, content, metadata, embedding) ==
    [id |-> doc_id, content |-> content, metadata |-> metadata,
     embedding |-> [vec |-> <<>>, norm2 |-> 0]]

\* the text is stored as it is embedded, in lower case
Document_lowered(doc_id, content, metadata, embedding) ==
    [id |-> doc_id, content |-> IF content = "X y" THEN "x y" ELSE content,
     metadata |-> metadata, embedding |-> embedding]

\* lines 32-39: Document(...). created_at and updated_at (lines 37-38, the
\* wall clock at the call) are left out: no operation of the service reads
\* them.
Document(doc_id, content, metadata, embedding) ==
    [id |-> doc_id, content |-> content, metadata |-> metadata, embedding |-> embedding]

\* seq[:k + 1]
SliceTo_one_more(seq, k) ==
    IF k + 1 >= 0 THEN SubSeq(seq, 1, Min(k + 1, Len(seq)))
    ELSE SubSeq(seq, 1, Len(seq) + k + 1)

\* seq[:k]
SliceTo(seq, k) ==
    IF k >= 0 THEN SubSeq(seq, 1, Min(k, Len(seq)))
    ELSE SubSeq(seq, 1, Len(seq) + k)

RECURSIVE SortReverse(_)

\* the sort without reverse=True: ascending
SortReverse_ascending(similarities) ==
    IF similarities = <<>> THEN <<>>
    ELSE LET n == Len(similarities)
             sorted == SortReverse(SubSeq(similarities, 1, n - 1))
             x == similarities[n]
             before == Cardinality({p \in DOMAIN sorted :
                                       AtLeast(x.similarity, sorted[p].similarity)})
         IN  SubSeq(sorted, 1, before) \o <<x>> \o SubSeq(sorted, before + 1, Len(sorted))

\* a descending sort that reverses entries of equal similarity
SortReverse_unstable(similarities) ==
    IF similarities = <<>> THEN <<>>
    ELSE LET n == Len(similarities)
             sorted == SortReverse(SubSeq(similarities, 1, n - 1))
             x == similarities[n]
             before == Cardinality({p \in DOMAIN sorted :
                                       ~AtLeast(x.similarity, sorted[p].similarity)})
         IN  SubSeq(sorted, 1, before) \o <<x>> \o SubSeq(sorted, before + 1, Len(sorted))

\* line 61: similarities.sort(key=lambda x: x[1], reverse=True), a stable
\* sort: entries of equal similarity keep their order
SortReverse(similarities) ==
    IF similarities = <<>> THEN <<>>
    ELSE LET n == Len(similarities)
             sorted == SortReverse(SubSeq(similarities, 1, n - 1))
             x == similarities[n]
             before == Cardinality({p \in DOMAIN sorted :
                                       AtLeast(sorted[p].similarity, x.similarity)})
         IN  SubSeq(sorted, 1, before) \o <<x>> \o SubSeq(sorted, before + 1, Len(sorted))

\* lines 47-76: the results, or the KeyError of line 67
similarity_search(docs, embs, h, query, k) ==
    IF docs = <<>> THEN Return(<<>>)
    ELSE LET query_embedding == _generate_simple_embedding(h, query)
             similarities == [n \in DOMAIN embs |->
                                 [doc_id |-> embs[n].id,
                                  similarity |-> _cosine_similarity(query_embedding,
                                                                    embs[n].embedding)]]
             top_results == SliceTo(SortReverse(similarities), k)
         IN  IF \E r \in DOMAIN top_results : KeyIndex(docs, top_results[r].doc_id) = 0
               THEN Raise("KeyError")
             ELSE Return([r \in DOMAIN top_results |->
                             [document |-> docs[KeyIndex(docs, top_results[r].doc_id)],
                              score |-> top_results[r].similarity,
                              rank |-> r]])

\* line 89: self.documents.get(doc_id)
get_document(docs, doc_id) ==
    IF KeyIndex(docs, doc_id) = 0 THEN None ELSE Some(docs[KeyIndex(docs, doc_id)])

----------------------------------------------------------------------------
(* main.py: the endpoints of the URL indexing jobs.  vector_store_service   *)
(* in main.py is the VectorStoreService of vector_store_service.py line     *)
(* 124, as the services package exports it.                                  *)

\* a JSON response, and the response FastAPI makes of an HTTPException
Response(status_code, body) == [status_code |-> status_code, body |-> body]
HTTPException(status_code, detail) == Response(status_code, [detail |-> detail])

\* the text _extract_text_content gave for the page of a document
PageText(url) == IF url = "http://a.test/" THEN "x" ELSE "X y"

\* lines 293-299: the metadata of a crawled document
UrlMetadata(doc) == [source_type |-> "url", url |-> doc.url]

\* main.py line 25 takes the name vector_store_service from the package
\* app.services, whose __init__.py is not among the sources of ai-service.
\* The hand-off is specified to push into a Vector Index instance: the name
\* is the object of vector_store_service.py line 124 (as the __init__.py of
\* doc-search/app/services exports it), not the submodule of that name.
vector_store_service == "VectorStoreService()"

\* add_document (lines 27-45) on the index idx = [documents, embeddings];
\* on a name without that method the call raises AttributeError, which lines
\* 304-305 catch and log
add_document(idx, h, doc_id, content, metadata) ==
    LET embedding == _generate_simple_embedding(h, content)
        document == Document(doc_id, content, metadata, embedding)
    IN  IF vector_store_service # "VectorStoreService()" THEN idx
        ELSE [documents |-> DictSet(idx.documents, document),
              embeddings |-> DictSet(idx.embeddings, [id |-> doc_id, embedding |-> embedding])]

\* the loop that skips a document whose URL has an entry in the index
RECURSIVE add_results_once_per_url(_, _, _)
add_results_once_per_url(idx, h, results) ==
    IF results = <<>> THEN idx
    ELSE add_results_once_per_url(
             IF \E n \in DOMAIN idx.documents :
                    idx.documents[n].metadata.url = Head(results).url
             THEN idx
             ELSE add_document(idx, h, Head(results).id,
                               PageText(Head(results).url),
                               UrlMetadata(Head(results))),
             h, Tail(results))

\* lines 290-305: for doc in results: await add_document(doc["id"], ...).
\* add_document never suspends, so neither does the loop.
RECURSIVE add_results(_, _, _)
add_results(idx, h, results) ==
    IF results = <<>> THEN idx
    ELSE add_results(add_document(idx, h, Head(results).id, PageText(Head(results).url),
                                  UrlMetadata(Head(results))),
                     h, Tail(results))

\* get_url_indexing_status, lines 269-279: the HTTPException of line 275 is
\* raised inside the try and is an Exception, so line 278 catches it
get_url_indexing_status(jobs, job_id) ==
    LET status == get_job_status(jobs, job_id)
        try == IF status = None THEN Raise(HTTPException(404, "Job not found"))
               ELSE Return(Response(200, status[1]))
    IN  IF try.raised
          THEN HTTPException(500, "Error getting job status: 404: Job not found")
        ELSE try.value[1]

\* get_url_indexing_results, lines 281-314: the response
get_url_indexing_results(jobs, job_id) ==
    LET results == get_job_results(jobs, job_id)
        try == IF results = None THEN Raise(HTTPException(404, "Job not found"))
               ELSE Return(Response(200, [job_id |-> job_id,
                                          documents |-> results[1],
                                          total_documents |-> Len(results[1]),
                                          indexed_documents |-> Len(results[1])]))
    IN  IF try.raised
          THEN HTTPException(500, "Error getting job results: 404: Job not found")
        ELSE try.value[1]

----------------------------------------------------------------------------
(* Actions *)

\* line 42 as self.embeddings.setdefault(doc_id, embedding)
AddDocument_keeps_embedding(doc_id, content, metadata) ==
    LET embedding == _generate_simple_embedding(hash, content)
        document == Document(doc_id, content, metadata, embedding)
    IN  /\ documents' = DictSet(documents, document)
        /\ embeddings' = IF KeyIndex(embeddings, doc_id) = 0
                            THEN DictSet(embeddings, [id |-> doc_id, embedding |-> embedding])
                          ELSE embeddings
        /\ ret' = Called("add_document", <<doc_id, content, metadata>>, Some(document))
        /\ UNCHANGED <<indexing_jobs, tasks, web, hash>>

\* VectorStoreService.add_document, lines 27-45
AddDocument(doc_id, content, metadata) ==
    LET embedding == _generate_simple_embedding(hash, content)
        document == Document(doc_id, content, metadata, embedding)
    IN  /\ documents' = DictSet(documents, document)
        /\ embeddings' = DictSet(embeddings, [id |-> doc_id, embedding |-> embedding])
        /\ ret' = Called("add_document", <<doc_id, content, metadata>>, Some(document))
        /\ UNCHANGED <<indexing_jobs, tasks, web, hash>>

\* the query's embedding is kept in self.embeddings
SimilaritySearch_caches_query(query, k) ==
    /\ ret' = Called("similarity_search", <<query, k>>,
                     similarity_search(documents, embeddings, hash, query, k))
    /\ embeddings' = DictSet(embeddings,
                             [id |-> "query",
                              embedding |-> _generate_simple_embedding(hash, query)])
    /\ UNCHANGED <<indexing_jobs, tasks, web, documents, hash>>

\* VectorStoreService.similarity_search, lines 47-76
SimilaritySearch(query, k) ==
    /\ ret' = Called("similarity_search", <<query, k>>,
                     similarity_search(documents, embeddings, hash, query, k))
    /\ UNCHANGED <<indexing_jobs, tasks, web, index>>

\* the delete without line 82
DeleteDocument_keeps_embedding(doc_id) ==
    /\ IF KeyIndex(documents, doc_id) # 0
         THEN /\ documents' = DictDel(documents, doc_id)
              /\ ret' = Called("delete_document", <<doc_id>>, Some(TRUE))
              /\ UNCHANGED embeddings
       ELSE /\ ret' = Called("delete_document", <<doc_id>>, Some(FALSE))
            /\ UNCHANGED <<documents, embeddings>>
    /\ UNCHANGED <<indexing_jobs, tasks, web, hash>>

\* VectorStoreService.delete_document, lines 78-85
DeleteDocument(doc_id) ==
    /\ IF KeyIndex(documents, doc_id) # 0
         THEN /\ documents' = DictDel(documents, doc_id)
              /\ embeddings' = DictDel(embeddings, doc_id)
              /\ ret' = Called("delete_document", <<doc_id>>, Some(TRUE))
       ELSE /\ ret' = Called("delete_document", <<doc_id>>, Some(FALSE))
            /\ UNCHANGED <<documents, embeddings>>
    /\ UNCHANGED <<indexing_jobs, tasks, web, hash>>

\* VectorStoreService.get_document, lines 87-89
GetDocument(doc_id) ==
    /\ ret' = Called("get_document", <<doc_id>>, get_document(documents, doc_id))
    /\ UNCHANGED <<indexing_jobs, tasks, web, index>>

\* VectorStoreService.list_documents, lines 91-93
ListDocuments ==
    /\ ret' = Called("list_documents", <<>>, Some(documents))
    /\ UNCHANGED <<indexing_jobs, tasks, web, index>>

\* URLIndexingService.start_url_indexing, lines 191-209: no await, one step
StartUrlIndexing(urls, config) ==
    /\ LET job_id == Len(tasks) + 1     \* line 193: a fresh uuid4
       IN  /\ tasks' = Append(tasks, create_task(job_id, urls, config))
           /\ indexing_jobs' = store_job(indexing_jobs,
                                         new_job(job_id, urls, config, Len(tasks) + 1))
           /\ ret' = Called("start_url_indexing", <<urls, config>>, Some(job_id))
    /\ UNCHANGED <<web, index>>

\* first step of _index_urls_background: line 213 up to the first suspension
TaskStart(k) ==
    /\ tasks[k].pc = "scheduled"
    /\ IF JobIndex(indexing_jobs, tasks[k].job_id) = 0
         THEN /\ tasks' = [tasks EXCEPT ![k].pc = "KeyError"]
              /\ UNCHANGED indexing_jobs
       ELSE \E opened \in BOOLEAN : Commit(k, enter_session(Frame(k), opened))
    /\ ret' = NoCall
    /\ UNCHANGED <<web, index>>

\* session.get(url) answers: lines 74-113, then on to the next suspension
FetchReturn(k) ==
    /\ tasks[k].pc = "fetching"
    /\ Commit(k, after_fetch(Frame(k), web[tasks[k].current.url]))
    /\ ret' = NoCall
    /\ UNCHANGED <<web, index>>

\* session.close() returns or raises: lines 30-32, then 232-237
CloseReturn(k) ==
    /\ tasks[k].pc = "closing"
    /\ \E closed \in BOOLEAN : Commit(k, after_close(Frame(k), closed))
    /\ ret' = NoCall
    /\ UNCHANGED <<web, index>>

\* the task handle kept in job["task"] is cancelled (task.cancel(), or the
\* event loop cancelling its pending tasks on shutdown)
Cancel(k) ==
    /\ tasks[k].pc \in {"scheduled", "fetching", "closing"}
    /\ JobIndex(indexing_jobs, tasks[k].job_id) # 0
    /\ Commit(k, cancelled(Frame(k)))
    /\ ret' = NoCall
    /\ UNCHANGED <<web, index>>

\* URLIndexingService.get_job_status
GetJobStatus(job_id) ==
    /\ ret' = Called("get_job_status", <<job_id>>, get_job_status(indexing_jobs, job_id))
    /\ UNCHANGED <<indexing_jobs, tasks, web, index>>

\* URLIndexingService.get_job_results
GetJobResults(job_id) ==
    /\ ret' = Called("get_job_results", <<job_id>>, get_job_results(indexing_jobs, job_id))
    /\ UNCHANGED <<indexing_jobs, tasks, web, index>>

\* URLIndexingService.list_jobs
ListJobs ==
    /\ ret' = Called("list_jobs", <<>>, Some(list_jobs(indexing_jobs)))
    /\ UNCHANGED <<indexing_jobs, tasks, web, index>>

\* POST /index/urls, lines 250-267, with urls and config that parse
IndexUrls(urls, config) ==
    /\ LET job_id == Len(tasks) + 1
       IN  /\ tasks' = Append(tasks, create_task(job_id, urls, config))
           /\ indexing_jobs' = store_job(indexing_jobs,
                                         new_job(job_id, urls, config, Len(tasks) + 1))
           /\ ret' = Called("index_urls", <<urls, config>>,
                            Some(Response(200, [job_id |-> job_id,
                                                message |-> "URL indexing started",
                                                success |-> TRUE,
                                                urls_count |-> Len(urls)])))
    /\ UNCHANGED <<web, index>>

\* GET /index/urls/{job_id}/status
GetUrlIndexingStatus(job_id) ==
    /\ ret' = Called("get_url_indexing_status", <<job_id>>,
                     Some(get_url_indexing_status(indexing_jobs, job_id)))
    /\ UNCHANGED <<indexing_jobs, tasks, web, index>>

\* GET /index/urls/{job_id}/results: the results are pushed into the vector
\* store (lines 289-305) and returned
GetUrlIndexingResults(job_id) ==
    LET results == get_job_results(indexing_jobs, job_id)
        pushed == add_results([documents |-> documents, embeddings |-> embeddings], hash,
                              IF results = None THEN <<>> ELSE results[1])
    IN  /\ documents' = pushed.documents
        /\ embeddings' = pushed.embeddings
        /\ ret' = Called("get_url_indexing_results", <<job_id>>,
                         Some(get_url_indexing_results(indexing_jobs, job_id)))
        /\ UNCHANGED <<indexing_jobs, tasks, web, hash>>

----------------------------------------------------------------------------
(* Specifications *)

\* VectorStoreService.__init__, lines 23-25, in a process where the words
\* hash to different slots
EmptyIndex ==
    /\ documents = <<>>
    /\ embeddings = <<>>
    /\ hash = [word \in Vocabulary |-> IF word = "x" THEN 1 ELSE 2]

\* URLIndexingService.__init__, line 189; the web is any of Webs
Init ==
    /\ indexing_jobs = <<>>
    /\ tasks = <<>>
    /\ web \in Webs
    /\ ret = NoCall
    /\ EmptyIndex

\* job ids a caller may ask about: every id start has returned, and 0 (never
\* returned)
AskedIds == 0..Len(tasks)

\* the steps of the background tasks
TaskStep ==
    \/ \E k \in DOMAIN tasks : TaskStart(k)
    \/ \E k \in DOMAIN tasks : FetchReturn(k)
    \/ \E k \in DOMAIN tasks : CloseReturn(k)

\* the read handlers
Read ==
    \/ \E job_id \in AskedIds : GetJobStatus(job_id)
    \/ \E job_id \in AskedIds : GetJobResults(job_id)
    \/ ListJobs

\* up to MaxJobs jobs of up to MaxSeeds seeds each
Start ==
    /\ Len(tasks) < MaxJobs
    /\ \E urls \in SeedLists(MaxSeeds), config \in Configs : StartUrlIndexing(urls, config)

Next == Start \/ TaskStep \/ Read

Spec == Init /\ [][Next]_vars

\* one job of up to MaxSeeds seeds
StartOne ==
    /\ tasks = <<>>
    /\ \E urls \in SeedLists(MaxSeeds), config \in Configs : StartUrlIndexing(urls, config)

\* the same program with its task handle cancelled from outside
CancelStep == \E k \in DOMAIN tasks : Cancel(k)

NextCancel == StartOne \/ TaskStep \/ Read \/ CancelStep

SpecCancel == Init /\ [][NextCancel]_vars

\* one job of up to MaxSeedsLong seeds
StartLong ==
    /\ tasks = <<>>
    /\ \E urls \in SeedLists(MaxSeedsLong), config \in Configs : StartUrlIndexing(urls, config)

NextLong == StartLong \/ TaskStep \/ Read

SpecLong == Init /\ [][NextLong]_vars

\* the service in front of one of the link graphs
InitCrawl ==
    /\ indexing_jobs = <<>>
    /\ tasks = <<>>
    /\ web \in CrawlWebs
    /\ ret = NoCall
    /\ EmptyIndex

\* one job of up to MaxSeedsCrawl seeds, with any depth and filter
StartCrawl ==
    /\ tasks = <<>>
    /\ \E k \in 1..MaxSeedsCrawl :
          \E urls \in [1..k -> CrawlSeedURLS], config \in CrawlConfigs :
              StartUrlIndexing(urls, config)

NextCrawl == StartCrawl \/ TaskStep

SpecCrawl == InitCrawl /\ [][NextCrawl]_vars

\* the steps of the k-th background task
TaskRun(k) ==
    /\ k \in DOMAIN tasks
    /\ (TaskStart(k) \/ FetchReturn(k) \/ CloseReturn(k))

\* the k-th task is scheduled or suspended in session.get or session.close:
\* the states in which TaskRun(k) can be taken
Active(k) ==
    /\ k \in DOMAIN tasks
    /\ tasks[k].pc \in {"scheduled", "fetching", "closing"}

\* the event loop runs every task that can run, and every session.get and
\* session.close comes back (the session has a total timeout, line 23):
\* weak fairness of TaskRun(k), WF_vars(TaskRun(k)), written out with Active(k)
\* for ENABLED <<TaskRun(k)>>_vars
Fairness == \A k \in 1..MaxJobs : []<>(~Active(k)) \/ []<><<TaskRun(k)>>_vars

\* the jobs and their tasks, without the read handlers
NextFair == Start \/ TaskStep

SpecFair == Init /\ [][NextFair]_vars /\ Fairness

SpecCrawlFair == InitCrawl /\ [][NextCrawl]_vars /\ Fairness

\* one job of up to MaxSeeds seeds behind the endpoints
StartApi ==
    /\ tasks = <<>>
    /\ \E urls \in SeedLists(MaxSeeds), config \in Configs : IndexUrls(urls, config)

ReadApi ==
    \/ \E job_id \in AskedIds : GetUrlIndexingStatus(job_id)
    \/ \E job_id \in AskedIds : GetUrlIndexingResults(job_id)

NextApi == StartApi \/ TaskStep \/ ReadApi

SpecApi == Init /\ [][NextApi]_vars

\* the vector store alone, in a process with either kind of hash
InitIndex ==
    /\ indexing_jobs = <<>>
    /\ tasks = <<>>
    /\ web = [url \in URLS |-> CrawlPage("down", url)]
    /\ ret = NoCall
    /\ documents = <<>>
    /\ embeddings = <<>>
    /\ hash \in HashFunctions

NextIndex ==
    \/ \E doc_id \in DocIds, content \in Contents, metadata \in Metadata :
          AddDocument(doc_id, content, metadata)
    \/ \E query \in Queries, k \in Ks : SimilaritySearch(query, k)
    \/ \E doc_id \in DocIds : DeleteDocument(doc_id)
    \/ \E doc_id \in DocIds : GetDocument(doc_id)
    \/ ListDocuments

SpecIndex == InitIndex /\ [][NextIndex]_vars

----------------------------------------------------------------------------
(* Vocabulary of the properties *)

Terminal == {"completed", "failed"}

JobIds == {indexing_jobs[k].id : k \in DOMAIN indexing_jobs}

\* the job dict of a known id, and the task whose handle it holds
JobOf(job_id) == indexing_jobs[JobIndex(indexing_jobs, job_id)]
TaskOf(job_id) == tasks[JobOf(job_id).task]

\* the task has ended: it will take no further step
Finished(t) == t.pc \in {"done", "cancelled", "KeyError"}

\* the task left the loop over its seeds with the session established
LoopOver(t) == t.pc \in {"closing", "done"} /\ t.i >= 1

FailedToIndex(errors) == SelectSeq(errors, LAMBDA e : e.msg = "Failed to index")

\* processing this seed raises out of index_url: its URL does not parse
\* while a domain filter is set
SeedRaises(t, j) ==
    /\ max_depth(t) >= 0
    /\ allowed_domains(t) # <<>>
    /\ UrlparseRaises(t.urls[j])

\* the dot-separated labels of a string, in lower case
RECURSIVE Labels(_)
Labels(s) ==
    IF \A k \in DOMAIN s : s[k] # "." THEN <<Lower(s)>>
    ELSE LET dot == CHOOSE k \in DOMAIN s :
                        s[k] = "." /\ \A q \in 1..(k - 1) : s[q] # "."
         IN  <<Lower(SubSeq(s, 1, dot - 1))>> \o Labels(SubSeq(s, dot + 1, Len(s)))

\* the host of url is the domain allowed or one of its subdomains, whatever
\* the case of the letters
InDomain(url, allowed) ==
    LET h == Labels(Netloc(url))
        a == Labels(Chars(allowed))
    IN  /\ Netloc(url) # <<>>
        /\ Len(h) >= Len(a)
        /\ SubSeq(h, Len(h) - Len(a) + 1, Len(h)) = a

\* this seed passes the depth and domain tests and is handed to session.get
SeedFetched(t, j) ==
    /\ max_depth(t) >= 0
    /\ ~UrlparseRaises(t.urls[j]) \/ allowed_domains(t) = <<>>
    /\ \/ allowed_domains(t) = <<>>
       \/ \E a \in DOMAIN allowed_domains(t) :
              InDomain(t.urls[j], allowed_domains(t)[a])

FetchFailed(f) == f.kind \in {"neterr", "non200"}

\* the documents of the batches index_url has returned, in order
RECURSIVE Documents(_)
Documents(returned) ==
    IF returned = <<>> THEN <<>>
    ELSE Head(returned).documents \o Documents(Tail(returned))

\* the seeds whose index_url call has ended, by return or by exception
SeedsEnded(t) == IF t.i = 0 THEN 0 ELSE t.i - 1

\* the ids of a sequence of records
Ids(seq) == [k \in DOMAIN seq |-> seq[k].id]

\* the URLs of a sequence of documents
Urls(docs) == {docs[d].url : d \in DOMAIN docs}

\* url passes the task's domain filter: there is none, or its host is in
\* the domain of some entry
Allowed(t, url) ==
    \/ allowed_domains(t) = <<>>
    \/ \E a \in DOMAIN allowed_domains(t) : InDomain(url, allowed_domains(t)[a])

\* an allowed page that the web answers with status 200 and HTML
Crawlable(t, url) == web[url].kind = "html" /\ Allowed(t, url)

\* the crawlable pages within `links` more links of the pages given
RECURSIVE Within(_, _, _)
Within(t, pages, links) ==
    IF links <= 0 THEN pages
    ELSE Within(t,
                pages \cup {v \in URLS : Crawlable(t, v) /\ \E u \in pages : v \in web[u].links},
                links - 1)

\* the documents the task has made so far, returned or not
Made(t) == Documents(t.returned) \o t.indexed_documents

\* the n-th fetch of the task left no document and no call of _extract_links
NothingFrom(t, n) ==
    /\ \A d \in DOMAIN Made(t) : Made(t)[d].id # <<t.job_id, n>>
    /\ \A e \in DOMAIN t.extracted :
          ~ /\ t.extracted[e].seed = t.fetched[n].seed
            /\ t.extracted[e].url = t.fetched[n].url

\* the index_url call of the n-th fetch has returned to the loop over seeds
CallReturned(t, n) ==
    \E r \in DOMAIN t.returned : t.returned[r].seed = t.fetched[n].seed

\* the fetches of one seed's traversal that gave a document, in order
HtmlFetches(t, seed) ==
    SelectSeq([n \in 1..Len(t.fetched) |-> n],
              LAMBDA n : t.fetched[n].seed = seed /\ t.fetched[n].kind = "html")

\* the pages a traversal from seed is to return
Reachable(t, seed) ==
    IF max_depth(t) < 0 \/ ~Crawlable(t, seed) THEN {}
    ELSE Within(t, {seed}, max_depth(t))

\* the ids stored in a dict
KeysOf(dict) == {dict[n].id : n \in DOMAIN dict}

\* the entry of a key the dict has
EntryOf(dict, key) == dict[KeyIndex(dict, key)]

\* the similarity of a stored document to a query
SimilarityOf(embs, h, query, doc_id) ==
    _cosine_similarity(_generate_simple_embedding(h, query), EntryOf(embs, doc_id).embedding)

\* the last call was a similarity_search that returned results
Searched == ret.op = "similarity_search" /\ ~ret.value.raised

\* the results of that call, and the ids of their documents in rank order
Results == ret.value.value[1]
ResultIds == [r \in DOMAIN Results |-> Results[r].document.id]

\* the stored documents that call left out
LeftOut == KeysOf(documents) \ {ResultIds[r] : r \in DOMAIN ResultIds}

\* every other entry of both dicts is the same before and after the step
OthersUntouched(doc_id) ==
    \A other \in KeysOf(documents) \ {doc_id} :
        /\ other \in KeysOf(documents') /\ other \in KeysOf(embeddings')
        /\ EntryOf(documents', other) = EntryOf(documents, other)
        /\ EntryOf(embeddings', other) = EntryOf(embeddings, other)

----------------------------------------------------------------------------
(* Properties of the job orchestrator *)

\* C1: once a job's status is completed or failed, no step of any task and
\* no handler call changes it, and the job stays in the table.
C1_TerminalStatusIsFinal ==
    [][\A k \in DOMAIN indexing_jobs :
          indexing_jobs[k].status \in Terminal =>
              /\ k \in DOMAIN indexing_jobs'
              /\ indexing_jobs'[k].id = indexing_jobs[k].id
              /\ indexing_jobs'[k].status = indexing_jobs[k].status]_vars

\* a terminal job observed by a later handler call while another job exists
C1_Witness ==
    /\ ret.op = "list_jobs"
    /\ Len(indexing_jobs) = 2
    /\ indexing_jobs[1].status = "failed"
    /\ indexing_jobs[2].status = "completed"

C3_FetchFailuresRecorded ==
    \A job_id \in JobIds :
        LET job == JobOf(job_id)
            t == TaskOf(job_id)
            failures == SelectSeq(t.fetched, FetchFailed)
        IN  /\ \A n \in 1..Len(failures) :
                  \E e \in 1..Len(job.errors) : job.errors[e].url = failures[n].url
            /\ Len(job.errors) >= Len(failures)

\* C4: when opening the session fails, the job goes from running to failed
\* in that step, exactly one entry describing the failure is appended to its
\* errors, and no URL of the job is fetched, then or later.
C4_SetupFailureFailsJob ==
    \A job_id \in JobIds :
        TaskOf(job_id).exc = "ClientSessionError" =>
            /\ JobOf(job_id).status = "failed"
            /\ JobOf(job_id).errors = <<ErrorMsg("Job failed", "", "ClientSessionError")>>
            /\ JobOf(job_id).results = <<>>
            /\ TaskOf(job_id).fetched = <<>>
            /\ Finished(TaskOf(job_id))

\* a job with seeds whose session could not be opened
C4_Witness ==
    \E job_id \in JobIds :
        /\ TaskOf(job_id).exc = "ClientSessionError"
        /\ Len(JobOf(job_id).urls) = 2

\* C5 (as claimed): a job's status is completed or failed exactly when its
\* background task has ended, cancellation included.
C5_StatusCoherentWithTask ==
    \A job_id \in JobIds :
        JobOf(job_id).status \in Terminal <=> Finished(TaskOf(job_id))

\* a start call the claim calls invalid: no seeds, or a negative crawl depth
InvalidInput(urls, config) == urls = <<>> \/ Get(config, "crawl_depth", 1) < 0

\* C6 (as claimed): start called with an empty seed list or a negative crawl
\* depth returns no job id, leaves the job table unchanged and launches no
\* task.
C6_StartRejectsInvalidInput ==
    [][(ret'.op = "start_url_indexing" /\ InvalidInput(ret'.args[1], ret'.args[2])) =>
           /\ ret'.value = None
           /\ UNCHANGED <<indexing_jobs, tasks>>]_vars

\* C7: when start returns, the job is in the table in state running, its
\* task has run no step and fetched nothing, and get_status of the returned
\* id succeeds; and no task ever misses its record at its first step.
C7_JobRegisteredBeforeTaskRuns ==
    /\ ret.op = "start_url_indexing" =>
          /\ ret.value # None
          /\ JobIndex(indexing_jobs, ret.value[1]) # 0
          /\ JobOf(ret.value[1]).status = "running"
          /\ JobOf(ret.value[1]).task \in DOMAIN tasks
          /\ TaskOf(ret.value[1]).job_id = ret.value[1]
          /\ TaskOf(ret.value[1]).pc = "scheduled"
          /\ TaskOf(ret.value[1]).fetched = <<>>
          /\ get_job_status(indexing_jobs, ret.value[1]) # None
    /\ \A k \in DOMAIN tasks : tasks[k].pc # "KeyError"

\* start has just returned the second job while the first job's task is
\* already past its first step
C7_Witness ==
    /\ ret.op = "start_url_indexing"
    /\ Len(tasks) = 2
    /\ tasks[1].pc = "fetching"
    /\ tasks[2].pc = "scheduled"

\* C8: results and errors of every job only grow by appending, and
\* get_results of a known job returns exactly the documents accumulated so
\* far, also while the job is running.
C8_AppendOnly ==
    [][/\ \A k \in DOMAIN indexing_jobs :
             /\ k \in DOMAIN indexing_jobs'
             /\ IsPrefix(indexing_jobs[k].results, indexing_jobs'[k].results)
             /\ IsPrefix(indexing_jobs[k].errors, indexing_jobs'[k].errors)
       /\ (ret'.op = "get_job_results" /\ JobIndex(indexing_jobs, ret'.args[1]) # 0) =>
             ret'.value = Some(indexing_jobs[JobIndex(indexing_jobs, ret'.args[1])].results)]_vars

\* partial results read from a running job that already has documents
C8_Witness ==
    /\ ret.op = "get_job_results"
    /\ ret.value # None
    /\ ret.value[1] # <<>>
    /\ JobOf(ret.args[1]).status = "running"
    /\ TaskOf(ret.args[1]).pc = "fetching"

\* C9: a job record changes only in a step of its own task, and not at all
\* once its status is completed or failed.
C9_ImmutableOnceTerminal ==
    [][\A k \in DOMAIN indexing_jobs :
          /\ k \in DOMAIN indexing_jobs'
          /\ indexing_jobs[k].status \in Terminal => indexing_jobs'[k] = indexing_jobs[k]
          /\ indexing_jobs'[k] # indexing_jobs[k] =>
                /\ tasks'[indexing_jobs[k].task] # tasks[indexing_jobs[k].task]
                /\ \A o \in DOMAIN tasks :
                      o # indexing_jobs[k].task => tasks'[o] = tasks[o]]_vars

\* a failed job with its failure message, read after it failed
C9_Witness ==
    /\ ret.op = "get_job_results"
    /\ ret.value # None
    /\ JobOf(ret.args[1]).status = "failed"
    /\ Len(JobOf(ret.args[1]).errors) = 2
    /\ JobOf(ret.args[1]).results # <<>>

\* C10: get_status of a known job reports the status, the number of seeds,
\* the current lengths of results and errors, and the last min(5,
\* errors_count) errors in their original order.
C10_StatusSnapshot ==
    (ret.op = "get_job_status" /\ JobIndex(indexing_jobs, ret.args[1]) # 0) =>
        /\ ret.value # None
        /\ LET job == JobOf(ret.args[1])
               status == ret.value[1]
               n == Len(job.errors)
           IN  /\ status.id = job.id
               /\ status.status = job.status
               /\ status.urls_count = Len(job.urls)
               /\ status.documents_indexed = Len(job.results)
               /\ status.errors_count = n
               /\ Len(status.errors) = Min(5, n)
               /\ \A e \in 1..Len(status.errors) :
                     status.errors[e] = job.errors[n - Len(status.errors) + e]

\* a status read of a job with more than 5 errors, the last one differing
\* from the first
C10_Witness ==
    /\ ret.op = "get_job_status"
    /\ ret.value # None
    /\ ret.value[1].errors_count > 5
    /\ JobOf(ret.args[1]).errors[1] # JobOf(ret.args[1]).errors[6]

\* C11: on every get_status call, between any two steps of the job's task,
\* the job table is left as it was and the returned status, lengths and last
\* errors are those of the job record of that instant; that record holds
\* whole batches only: results is the concatenation of the batches index_url
\* has returned, and batches plus failed seeds count the seeds ended so far.
C11_StatusReadIsOneInstant ==
    [][(ret'.op = "get_job_status" /\ ret'.value # None) =>
          LET job == JobOf(ret'.args[1])
              t == TaskOf(ret'.args[1])
              status == ret'.value[1]
          IN  /\ UNCHANGED <<indexing_jobs, tasks>>
              /\ status.status = job.status
              /\ status.documents_indexed = Len(job.results)
              /\ status.errors_count = Len(job.errors)
              /\ Len(status.errors) = Min(5, Len(job.errors))
              /\ status.errors = SubSeq(job.errors, Len(job.errors) - Len(status.errors) + 1,
                                        Len(job.errors))
              /\ job.results = Documents(t.returned)
              /\ Len(t.returned) + Len(FailedToIndex(job.errors)) = SeedsEnded(t)
              /\ status.status = "completed" => SeedsEnded(t) = status.urls_count]_vars

\* a status read between two fetches of a running job that has a batch of
\* documents and a failed seed behind it
C11_Witness ==
    /\ ret.op = "get_job_status"
    /\ ret.value # None
    /\ ret.value[1].status = "running"
    /\ ret.value[1].documents_indexed >= 1
    /\ ret.value[1].errors_count >= 1
    /\ TaskOf(ret.args[1]).pc = "fetching"

\* C12: get_status and get_results of an id start never returned give no
\* result, and get_status, get_results and list_jobs leave the job table,
\* every job record and every task as they were, for any id.
C12_ReadsAreSideEffectFree ==
    [][ret'.op \in {"get_job_status", "get_job_results", "list_jobs"} =>
          /\ UNCHANGED <<indexing_jobs, tasks, web>>
          /\ (ret'.op # "list_jobs" /\
                 \A k \in DOMAIN tasks : tasks[k].job_id # ret'.args[1]) =>
                 ret'.value = None]_vars

\* get_results of an unknown id while a job with documents is in the table
C12_Witness ==
    /\ ret.op = "get_job_results"
    /\ ret.args[1] \notin JobIds
    /\ ret.value = None
    /\ \E job_id \in JobIds : JobOf(job_id).results # <<>>

\* C13: the job ids in the table only grow at the end, so no job is removed
\* or reordered, and list_jobs returns one summary per job start created, in
\* creation order, oldest first.
C13_ListJobsInCreationOrder ==
    [][/\ IsPrefix(Ids(indexing_jobs), Ids(indexing_jobs'))
       /\ ret'.op = "list_jobs" =>
             Ids(ret'.value[1]) = [k \in DOMAIN tasks |-> tasks[k].job_id]]_vars

\* list_jobs returning two jobs, the older one first
C13_Witness ==
    /\ ret.op = "list_jobs"
    /\ Len(ret.value[1]) = 2
    /\ ret.value[1][1].id = tasks[1].job_id
    /\ ret.value[1][2].id = tasks[2].job_id
    /\ ret.value[1][1].status = "running"
    /\ ret.value[1][2].status = "completed"

\* C14: job ids are distinct; a step of one task changes no other task and
\* no other job's record; a start adds one running job and changes no other;
\* a job's results are exactly the documents its own task's traversals
\* returned; and a job is failed only through a failure of its own task.
C14_JobsDoNotInterfere ==
    [][/\ \A j1, j2 \in DOMAIN indexing_jobs :
             j1 # j2 => indexing_jobs[j1].id # indexing_jobs[j2].id
       /\ \A job_id \in JobIds :
             /\ JobOf(job_id).results = Documents(TaskOf(job_id).returned)
             /\ \A d \in DOMAIN JobOf(job_id).results :
                   JobOf(job_id).results[d].id[1] = job_id
             /\ JobOf(job_id).status = "failed" =>
                   TaskOf(job_id).exc \in {"ClientSessionError", "CloseError"}
       /\ \A k \in DOMAIN tasks :
             tasks'[k] # tasks[k] =>
                 /\ \A o \in DOMAIN tasks : o # k => tasks'[o] = tasks[o]
                 /\ \A j \in DOMAIN indexing_jobs :
                       indexing_jobs[j].id # tasks[k].job_id =>
                           indexing_jobs'[j] = indexing_jobs[j]
       /\ ret'.op = "start_url_indexing" =>
             /\ ret'.value # None
             /\ ret'.value[1] \notin JobIds
             /\ Len(indexing_jobs') = Len(indexing_jobs) + 1
             /\ \A j \in DOMAIN indexing_jobs : indexing_jobs'[j] = indexing_jobs[j]
             /\ \A k \in DOMAIN tasks : tasks'[k] = tasks[k]
             /\ indexing_jobs'[Len(indexing_jobs')].id = ret'.value[1]
             /\ indexing_jobs'[Len(indexing_jobs')].status = "running"]_vars

\* two jobs over the same seed: one failed after it got its document, the
\* other completed with a document of its own
C14_Witness ==
    /\ Len(indexing_jobs) = 2
    /\ indexing_jobs[1].urls = indexing_jobs[2].urls
    /\ indexing_jobs[1].status = "failed"
    /\ indexing_jobs[2].status = "completed"
    /\ Len(indexing_jobs[1].results) = 1
    /\ Len(indexing_jobs[2].results) = 1
    /\ indexing_jobs[1].results[1].url = indexing_jobs[2].results[1].url
    /\ indexing_jobs[1].results[1].id # indexing_jobs[2].results[1].id

----------------------------------------------------------------------------
(* Properties of the crawler *)

\* C15 (as claimed): for max_depth >= 0 the URLs of the documents a
\* traversal returns are exactly the allowed, fetchable HTML pages within
\* max_depth links of the seed through fetched pages; with a -> b, c and
\* b -> d and max_depth 1 that is {a, b, c}.
C15_ReturnsBoundedReachable ==
    \A k \in DOMAIN tasks :
        \A r \in DOMAIN tasks[k].returned :
            max_depth(tasks[k]) >= 0 =>
                Urls(tasks[k].returned[r].documents) =
                    Reachable(tasks[k], tasks[k].urls[tasks[k].returned[r].seed])

\* C16 (as claimed): within one traversal no URL is handed to session.get
\* twice, and the visited set the traversal ends with holds every URL it
\* fetched, whether the fetch succeeded, failed or was not HTML.
C16_VisitedOncePerTraversal ==
    \A k \in DOMAIN tasks :
        LET t == tasks[k]
        IN  /\ \A n1, n2 \in DOMAIN t.fetched :
                  (n1 # n2 /\ t.fetched[n1].seed = t.fetched[n2].seed) =>
                      t.fetched[n1].url # t.fetched[n2].url
            /\ \A r \in DOMAIN t.returned :
                  \A n \in DOMAIN t.fetched :
                      t.fetched[n].seed = t.returned[r].seed =>
                          t.fetched[n].url \in t.returned[r].visited

\* C17: no two documents of one traversal have the same URL, neither in the
\* sequence it has returned nor in the one it is building, whatever the link
\* graph.
C17_NoDuplicateDocuments ==
    \A k \in DOMAIN tasks :
        /\ \A r \in DOMAIN tasks[k].returned :
              LET batch == tasks[k].returned[r].documents
              IN  \A d1, d2 \in DOMAIN batch :
                      d1 # d2 => batch[d1].url # batch[d2].url
        /\ \A d1, d2 \in DOMAIN tasks[k].indexed_documents :
              d1 # d2 => tasks[k].indexed_documents[d1].url # tasks[k].indexed_documents[d2].url

\* a traversal of depth 2 from a page of a cycle (a -> b -> a) has returned
\* that page, and the same seed is traversed a second time
C17_Witness ==
    \E k \in DOMAIN tasks :
        /\ max_depth(tasks[k]) = 2
        /\ Len(tasks[k].returned) = 2
        /\ tasks[k].urls = <<"http://a.test/", "http://a.test/">>
        /\ \A r \in 1..2 :
              /\ Len(tasks[k].returned[r].documents) = 1
              /\ tasks[k].returned[r].documents[1].raw_html = {"http://b.test/"}
        /\ "http://a.test/" \in web["http://b.test/"].links

\* C18: no URL is fetched or waits in the frontier at a depth above
\* max_depth, links are extracted only from pages at a depth below
\* max_depth, and with max_depth 0 a traversal fetches its seed only,
\* returns at most the seed's document and extracts no links.
C18_DepthLimit ==
    \A k \in DOMAIN tasks :
        LET t == tasks[k]
        IN  /\ \A n \in DOMAIN t.fetched : t.fetched[n].depth <= max_depth(t)
            /\ \A n \in DOMAIN t.urls_to_process : t.urls_to_process[n].depth <= max_depth(t)
            /\ \A n \in DOMAIN t.extracted : t.extracted[n].depth < max_depth(t)
            /\ max_depth(t) = 0 =>
                  /\ t.extracted = <<>>
                  /\ \A n \in DOMAIN t.fetched :
                        /\ t.fetched[n].depth = 0
                        /\ t.fetched[n].url = t.urls[t.fetched[n].seed]
                  /\ \A r \in DOMAIN t.returned :
                        /\ Len(t.returned[r].documents) <= 1
                        /\ Urls(t.returned[r].documents) \subseteq {t.urls[t.returned[r].seed]}

\* with max_depth 0 a seed page that has links was returned as the only
\* document and no links were extracted
C18_Witness ==
    \E k \in DOMAIN tasks :
        /\ max_depth(tasks[k]) = 0
        /\ tasks[k].returned # <<>>
        /\ Len(tasks[k].returned[1].documents) = 1
        /\ tasks[k].returned[1].documents[1].raw_html # {}
        /\ tasks[k].extracted = <<>>
        /\ Len(tasks[k].fetched) = 1

\* C19: with a non-empty allowed_domains every URL handed to session.get,
\* the seed included, and every returned document's URL has a host that is
\* an allowed domain or a subdomain of one, letter case aside; with an empty
\* or absent allowed_domains every seed is fetched.
C19_DomainFilter ==
    \A k \in DOMAIN tasks :
        LET t == tasks[k]
        IN  /\ \A n \in DOMAIN t.fetched : Allowed(t, t.fetched[n].url)
            /\ \A r \in DOMAIN t.returned :
                  \A url \in Urls(t.returned[r].documents) : Allowed(t, url)
            /\ (allowed_domains(t) = <<>> /\ max_depth(t) >= 0) =>
                  \A j \in 1..SeedsEnded(t) :
                      \E n \in DOMAIN t.fetched :
                          t.fetched[n].seed = j /\ t.fetched[n].url = t.urls[j]

\* under the filter A.Test the seed sub.a.test was fetched and returned and
\* the seed xa.test was dropped without a fetch
C19_Witness ==
    \E k \in DOMAIN tasks :
        /\ allowed_domains(tasks[k]) = <<"A.Test">>
        /\ tasks[k].urls = <<"http://sub.a.test/", "http://xa.test/">>
        /\ Len(tasks[k].returned) = 2
        /\ Urls(tasks[k].returned[1].documents) = {"http://sub.a.test/"}
        /\ tasks[k].returned[2].documents = <<>>
        /\ Len(tasks[k].fetched) = 1

\* C21: a fetch answered with a content type other than HTML leaves no
\* document and no link extraction, adds no entry for its URL to the job's
\* errors, and its traversal goes on to its end and returns.
C21_NonHtmlSkippedSilently ==
    \A job_id \in JobIds :
        LET t == TaskOf(job_id)
        IN  \A n \in DOMAIN t.fetched :
                t.fetched[n].kind = "nonhtml" =>
                    /\ NothingFrom(t, n)
                    /\ \A d \in DOMAIN JobOf(job_id).results :
                          JobOf(job_id).results[d].id # <<job_id, n>>
                    /\ \A e \in DOMAIN JobOf(job_id).errors :
                          JobOf(job_id).errors[e].url # t.fetched[n].url
                    /\ t.fetched[n].seed <= SeedsEnded(t) => CallReturned(t, n)

\* a completed job that met a non-HTML page twice and a failing seed in
\* between: no document, and the only error is the failing seed's
C21_Witness ==
    \E job_id \in JobIds :
        /\ JobOf(job_id).status = "completed"
        /\ Len(TaskOf(job_id).fetched) = 2
        /\ \A n \in 1..2 : TaskOf(job_id).fetched[n].kind = "nonhtml"
        /\ TaskOf(job_id).fetched[2].seed = 3
        /\ JobOf(job_id).results = <<>>
        /\ Len(JobOf(job_id).errors) = 1
        /\ Len(TaskOf(job_id).returned) = 2

\* C22: a fetch that fails with a network error or a non-200 status leaves
\* no document and no link extraction and its index_url call still returns;
\* what a call returns is the documents of all its successful fetches, in
\* the order of the fetches.
C22_FetchFailureEndsItsBranchOnly ==
    \A k \in DOMAIN tasks :
        LET t == tasks[k]
        IN  /\ \A n \in DOMAIN t.fetched :
                  FetchFailed(t.fetched[n]) =>
                      /\ NothingFrom(t, n)
                      /\ t.fetched[n].seed <= SeedsEnded(t) => CallReturned(t, n)
            /\ \A r \in DOMAIN t.returned :
                  Ids(t.returned[r].documents) =
                      [d \in 1..Len(HtmlFetches(t, t.returned[r].seed)) |->
                          <<t.job_id, HtmlFetches(t, t.returned[r].seed)[d]>>]

\* the first seed's fetch failed with a non-200 status, its call returned
\* no document, and the second seed was then fetched and returned
C22_Witness ==
    \E k \in DOMAIN tasks :
        /\ Len(tasks[k].fetched) = 2
        /\ tasks[k].fetched[1].kind = "non200"
        /\ tasks[k].fetched[2].kind = "html"
        /\ Len(tasks[k].returned) = 2
        /\ tasks[k].returned[1].documents = <<>>
        /\ Len(tasks[k].returned[2].documents) = 1

\* C23 (as claimed): with the session open, no index_url call raises to
\* the loop over the seeds: every call that has ended has returned its
\* documents, and no job has a "Failed to index" error.
C23_TraverseRaisesOnlyWithoutSession ==
    \A k \in DOMAIN tasks :
        /\ Len(tasks[k].returned) = SeedsEnded(tasks[k])
        /\ FailedToIndex(JobOf(tasks[k].job_id).errors) = <<>>

----------------------------------------------------------------------------
(* Properties of the vector index *)

\* C24 (as claimed): similarity_search(query, k) returns min(k, N) results
\* for every k and N, and an empty sequence without error on an empty index.
C24_SearchReturnsMinKN ==
    ret.op = "similarity_search" =>
        /\ ~ret.value.raised
        /\ Len(Results) = Min(ret.args[2], Len(documents))

\* C24 (amended): for every k >= 0 and N the search returns min(k, N)
\* results; for k < 0 it returns max(N + k, 0) results; on an empty index it
\* returns an empty sequence, and it never raises.
C24_SearchReturnsMinKNForNaturalK ==
    ret.op = "similarity_search" =>
        /\ ~ret.value.raised
        /\ ret.args[2] >= 0 => Len(Results) = Min(ret.args[2], Len(documents))
        /\ ret.args[2] < 0 =>
              Len(Results) = IF Len(documents) + ret.args[2] > 0
                               THEN Len(documents) + ret.args[2] ELSE 0
        /\ documents = <<>> => Results = <<>>

\* a search with k = 2 on an index of three documents
C24_Witness ==
    /\ Searched
    /\ ret.args[2] = 2
    /\ Len(documents) = 3
    /\ Len(Results) = 2

\* C25 (as claimed): every result has a score strictly greater than the
\* next one, and no document left out has a score greater than a returned
\* one.
C25_StrictlyDescending ==
    Searched =>
        /\ \A r \in 1..(Len(Results) - 1) :
              ~AtLeast(Results[r + 1].score, Results[r].score)
        /\ \A left \in LeftOut : \A r \in DOMAIN Results :
              AtLeast(Results[r].score, SimilarityOf(embeddings, hash, ret.args[1], left))

\* C25 (amended): the results are distinct stored documents, each with its
\* own similarity to the query as score and its position as rank, every
\* score is at least the next one, and no document left out has a score
\* greater than a returned one.
C25_Descending ==
    Searched =>
        /\ \A r \in DOMAIN Results :
              /\ ResultIds[r] \in KeysOf(documents)
              /\ Results[r].document = EntryOf(documents, ResultIds[r])
              /\ Results[r].score = SimilarityOf(embeddings, hash, ret.args[1], ResultIds[r])
              /\ Results[r].rank = r
        /\ \A r1, r2 \in DOMAIN Results : r1 # r2 => ResultIds[r1] # ResultIds[r2]
        /\ \A r \in 1..(Len(Results) - 1) :
              AtLeast(Results[r].score, Results[r + 1].score)
        /\ \A left \in LeftOut : \A r \in DOMAIN Results :
              AtLeast(Results[r].score, SimilarityOf(embeddings, hash, ret.args[1], left))

\* the two best of three documents with three different scores, returned
\* in an order that is not the order of insertion
C25_Witness ==
    /\ Searched
    /\ Len(documents) = 3
    /\ Len(Results) = 2
    /\ Results[1].score # Results[2].score
    /\ \A left \in LeftOut :
          SimilarityOf(embeddings, hash, ret.args[1], left) # Results[2].score
    /\ ResultIds[1] = documents[3].id
    /\ ResultIds[2] = documents[1].id

\* C26: the order of the ids in the index is their insertion order (an add
\* of a new id puts it last, an add that overwrites keeps the id's place, a
\* delete takes the id out and a later add puts it last), and in every
\* search documents of equal score are ranked in that order, the earlier
\* ones being those kept when k cuts a tie.
C26_TiesByInsertionOrder ==
    [][/\ ret'.op = "add_document" =>
             Ids(documents') = IF ret'.args[1] \in KeysOf(documents) THEN Ids(documents)
                               ELSE Append(Ids(documents), ret'.args[1])
       /\ ret'.op = "delete_document" =>
             Ids(documents') = SelectSeq(Ids(documents), LAMBDA id : id # ret'.args[1])
       /\ (ret'.op = "similarity_search" /\ ~ret'.value.raised) =>
             LET results == ret'.value.value[1]
                 at(r) == KeyIndex(documents, results[r].document.id)
             IN  /\ \A r1, r2 \in DOMAIN results :
                       (r1 < r2 /\ results[r1].score = results[r2].score) => at(r1) < at(r2)
                 /\ \A n \in DOMAIN documents :
                       \A r \in DOMAIN results :
                           (/\ \A q \in DOMAIN results : at(q) # n
                            /\ SimilarityOf(embeddings, hash, ret'.args[1], documents[n].id)
                                   = results[r].score)
                               => at(r) < n]_vars

\* three documents of the same non-zero score, two of them with different
\* contents, and a search with k = 2 that kept the two inserted first
C26_Witness ==
    /\ Searched
    /\ Len(documents) = 3
    /\ Len(Results) = 2
    /\ Results[1].score = Results[2].score
    /\ Results[1].score.num # 0
    /\ Results[1].document.content # Results[2].document.content
    /\ \A left \in LeftOut :
          SimilarityOf(embeddings, hash, ret.args[1], left) = Results[1].score
    /\ ResultIds = <<documents[1].id, documents[2].id>>

\* C27: a similarity_search call leaves documents, embeddings and the hash
\* as they were, what it returns is what the index it leaves gives for that
\* query and k, and a call that repeats the previous call returns the same
\* documents, scores and order.
C27_SearchReadOnlyRepeatable ==
    [][ret'.op = "similarity_search" =>
          /\ UNCHANGED <<documents, embeddings, hash>>
          /\ ret'.value = similarity_search(documents', embeddings', hash',
                                            ret'.args[1], ret'.args[2])
          /\ (ret.op = "similarity_search" /\ ret.args = ret'.args) =>
                ret'.value = ret.value]_vars

\* a search that returned two documents out of three
C27_Witness ==
    /\ Searched
    /\ ret.args[1] = "y x"
    /\ Len(documents) = 3
    /\ Len(Results) = 2
    /\ Results[1].score # Results[2].score

\* the step is an add or a delete of the id
OperatesOn(doc_id) ==
    /\ ret'.op \in {"add_document", "delete_document"}
    /\ ret'.args[1] = doc_id

\* C28: add returns the document it stored under the id, with the id,
\* content and metadata supplied; a get of the id right after the add
\* returns that document; and what get returns for an id is the same before
\* and after every step that is not an add or a delete of that id.
C28_AddThenGet ==
    [][/\ ret'.op = "add_document" =>
             /\ ret'.value # None
             /\ ret'.value = get_document(documents', ret'.args[1])
             /\ ret'.value[1].id = ret'.args[1]
             /\ ret'.value[1].content = ret'.args[2]
             /\ ret'.value[1].metadata = ret'.args[3]
       /\ (ret.op = "add_document" /\ ret'.op = "get_document"
              /\ ret'.args[1] = ret.args[1]) =>
             /\ ret'.value = ret.value
             /\ ret'.value[1].id = ret.args[1]
             /\ ret'.value[1].content = ret.args[2]
             /\ ret'.value[1].metadata = ret.args[3]
       /\ ret'.op = "get_document" => ret'.value = get_document(documents, ret'.args[1])
       /\ \A doc_id \in DocIds :
             ~OperatesOn(doc_id) =>
                 get_document(documents', doc_id) = get_document(documents, doc_id)]_vars

\* a get that returned a document with capitals in its content
C28_Witness ==
    /\ ret.op = "get_document"
    /\ ret.value # None
    /\ ret.value[1].content = "X y"
    /\ ret.value[1].metadata = [source_type |-> "file"]
    /\ Len(documents) = 2

\* C29: an add on an id the index has leaves the number of documents and
\* the place of the id as they were, makes get(id) return the new content
\* and metadata, stores the embedding of the new content, and leaves every
\* entry of another id as it was.
C29_AddOverwrites ==
    [][(ret'.op = "add_document" /\ ret'.args[1] \in KeysOf(documents)) =>
          /\ Len(documents') = Len(documents)
          /\ Len(embeddings') = Len(embeddings)
          /\ Ids(documents') = Ids(documents)
          /\ Ids(embeddings') = Ids(embeddings)
          /\ get_document(documents', ret'.args[1]) # None
          /\ get_document(documents', ret'.args[1])[1].content = ret'.args[2]
          /\ get_document(documents', ret'.args[1])[1].metadata = ret'.args[3]
          /\ EntryOf(embeddings', ret'.args[1]).embedding =
                _generate_simple_embedding(hash, ret'.args[2])
          /\ EntryOf(documents', ret'.args[1]).embedding =
                _generate_simple_embedding(hash, ret'.args[2])
          /\ OthersUntouched(ret'.args[1])]_vars

\* an add that has just replaced the first of three documents, whose
\* embedding is not that of the second
C29_Witness ==
    /\ ret.op = "add_document"
    /\ Len(documents) = 3
    /\ documents[1] = ret.value[1]
    /\ embeddings[1].embedding # embeddings[2].embedding
    /\ embeddings[1].embedding.norm2 # 0

\* C30: delete of a present id returns true and takes the id out of both
\* dicts, after which get returns None and no search returns or misses the
\* id; delete of an absent id returns false and changes nothing; entries of
\* other ids are untouched either way; and an id that is in neither dict
\* stays out of both until an add of that id.
C30_Delete ==
    [][/\ \A doc_id \in DocIds :
             (/\ doc_id \notin KeysOf(documents) \cup KeysOf(embeddings)
              /\ ~(ret'.op = "add_document" /\ ret'.args[1] = doc_id)) =>
                 doc_id \notin KeysOf(documents') \cup KeysOf(embeddings')
       /\ ret'.op = "delete_document" =>
          /\ ret'.args[1] \in KeysOf(documents) =>
                /\ ret'.value = Some(TRUE)
                /\ ret'.args[1] \notin KeysOf(documents')
                /\ ret'.args[1] \notin KeysOf(embeddings')
                /\ Len(documents') = Len(documents) - 1
                /\ get_document(documents', ret'.args[1]) = None
                /\ \A query \in Queries :
                      LET found == similarity_search(documents', embeddings', hash', query,
                                                     Len(documents))
                      IN  /\ ~found.raised
                          /\ \A r \in DOMAIN found.value[1] :
                                found.value[1][r].document.id # ret'.args[1]
          /\ ret'.args[1] \notin KeysOf(documents) =>
                /\ ret'.value = Some(FALSE)
                /\ UNCHANGED <<documents, embeddings>>
          /\ OthersUntouched(ret'.args[1])
          /\ UNCHANGED hash]_vars

\* a delete that took one of three documents out
C30_Witness ==
    /\ ret.op = "delete_document"
    /\ ret.value = Some(TRUE)
    /\ Len(documents) = 2
    /\ Len(embeddings) = 2
    /\ ret.args[1] \notin KeysOf(documents)

\* C31: in every state the documents map and the embeddings map hold the
\* same ids, each once and in the same order, every stored embedding is the
\* embedding field of the document of that id, and a search of that state
\* finds every id it looks up: it never raises.
C31_MappingsInStep ==
    /\ KeysOf(documents) = KeysOf(embeddings)
    /\ Ids(documents) = Ids(embeddings)
    /\ Cardinality(KeysOf(documents)) = Len(documents)
    /\ \A doc_id \in KeysOf(embeddings) :
          /\ doc_id \in KeysOf(documents)
          /\ EntryOf(embeddings, doc_id).embedding = EntryOf(documents, doc_id).embedding
    /\ ret.op = "similarity_search" => ~ret.value.raised
    /\ \A query \in Queries :
          ~similarity_search(documents, embeddings, hash, query, Len(documents)).raised

\* an index that has seen adds and a delete: two documents with non-zero
\* embeddings, in an order that is not the order of the ids, after a delete
C31_Witness ==
    /\ ret.op = "delete_document"
    /\ ret.value = Some(TRUE)
    /\ Ids(documents) = <<"d3", "d1">>
    /\ \A n \in DOMAIN embeddings : embeddings[n].embedding.norm2 # 0
    /\ embeddings[1].embedding # embeddings[2].embedding

\* the embedding of the query of the last search is the zero vector
ZeroQuery == _generate_simple_embedding(hash, ret.args[1]).norm2 = 0

\* C32 (as claimed): a similarity with a vector of magnitude 0 is 0.0, and a
\* search whose query embeds to the zero vector scores every document 0.0
\* and returns the first min(k, N) documents in insertion order.
C32_ZeroVectorScoresZero ==
    Searched =>
        /\ \A r \in DOMAIN Results :
              (ZeroQuery \/ Results[r].document.embedding.norm2 = 0) =>
                  Results[r].score = [num |-> 0, den |-> 1]
        /\ ZeroQuery =>
              /\ Len(Results) = Min(ret.args[2], Len(documents))
              /\ ResultIds = SubSeq(Ids(documents), 1, Min(ret.args[2], Len(documents)))

\* C32 (amended): a similarity with a vector of magnitude 0 is 0.0, and a
\* search whose query embeds to the zero vector does not raise, scores every
\* document 0.0 and, for k >= 0, returns the first min(k, N) documents in
\* insertion order (for k < 0, the first max(N + k, 0)).
C32_ZeroVectorScoresZeroForNaturalK ==
    /\ (ret.op = "similarity_search" /\ ZeroQuery) => ~ret.value.raised
    /\ Searched =>
          /\ \A r \in DOMAIN Results :
                (ZeroQuery \/ Results[r].document.embedding.norm2 = 0) =>
                    Results[r].score = [num |-> 0, den |-> 1]
          /\ (ZeroQuery /\ ret.args[2] >= 0) =>
                ResultIds = SubSeq(Ids(documents), 1, Min(ret.args[2], Len(documents)))
          /\ (ZeroQuery /\ ret.args[2] < 0) =>
                ResultIds = SubSeq(Ids(documents), 1, Len(documents) + ret.args[2])

\* a search with the empty query and k = 2 on three documents, the first
\* of them not the best match of any query with words
C32_Witness ==
    /\ Searched
    /\ ret.args = <<"", 2>>
    /\ Len(documents) = 3
    /\ documents[1].content = ""
    /\ documents[3].content = "x"
    /\ ResultIds = <<documents[1].id, documents[2].id>>
    /\ Results[2].score = [num |-> 0, den |-> 1]

----------------------------------------------------------------------------
(* Termination and order of the traversals *)

\* the status of a job, "" for an id the table does not have
StatusOf(job_id) ==
    IF JobIndex(indexing_jobs, job_id) = 0 THEN ""
    ELSE indexing_jobs[JobIndex(indexing_jobs, job_id)].status

\* C33: with a fair event loop and fetches that return, every job that is
\* running is later completed or failed, whatever its seeds and the other
\* job do.
C33_RunningLeadsToTerminal ==
    \A job_id \in 1..MaxJobs :
        (StatusOf(job_id) = "running") ~> (StatusOf(job_id) \in {"completed", "failed"})

\* two jobs ended, one failed and one completed after a fetch and an error
C33_Witness ==
    /\ Len(tasks) = 2
    /\ StatusOf(1) = "failed"
    /\ StatusOf(2) = "completed"
    /\ tasks[2].fetched # <<>>
    /\ indexing_jobs[JobIndex(indexing_jobs, 2)].errors # <<>>

\* the index_url call for the i-th seed is suspended in a fetch
Traversing(i) == Len(tasks) = 1 /\ tasks[1].pc = "fetching" /\ tasks[1].i = i

\* the index_url call for the i-th seed has returned or raised
TraversalEnded(i) == Len(tasks) = 1 /\ tasks[1].i > i

\* C34: when every fetch returns, an index_url call that has started a
\* fetch ends, on every link graph.
C34_TraversalTerminates ==
    \A i \in 1..MaxSeedsCrawl : Traversing(i) ~> TraversalEnded(i)

\* a traversal of the cycle a -> b -> a with links to follow has ended with
\* a document, and one of a seed that fails has ended too
C34_Witness ==
    /\ web = [url \in URLS |-> CrawlPage("cycle", url)]
    /\ Len(tasks) = 1
    /\ max_depth(tasks[1]) = 2
    /\ TraversalEnded(2)
    /\ tasks[1].urls = <<"http://a.test/", "http://[x">>
    /\ Len(tasks[1].fetched) = 2
    /\ tasks[1].returned[1].documents # <<>>

\* the seeds of the task whose index_url call raised, as the job records them
SeedErrors(t) ==
    LET job == indexing_jobs[JobIndex(indexing_jobs, t.job_id)]
    IN  SelectSeq(job.errors, LAMBDA error : error.msg = "Failed to index")

\* C35: the fetches of a job go through its seeds in order and the fetch in
\* progress belongs to the current seed; every seed before the current one
\* has ended, once, by a return or by a recorded exception, before a fetch
\* of a later seed; the job's results are at every moment the outputs of
\* the calls that have returned, whole and in seed order, each made of the
\* documents of that seed's fetches only.
C35_SeedsOneAtATimeInOrder ==
    \A k \in DOMAIN tasks :
        LET t == tasks[k]
            job == indexing_jobs[JobIndex(indexing_jobs, t.job_id)]
        IN  /\ \A n1, n2 \in DOMAIN t.fetched :
                  n1 < n2 => t.fetched[n1].seed <= t.fetched[n2].seed
            /\ \A n \in DOMAIN t.fetched :
                  /\ t.fetched[n].seed \in 1..Len(t.urls)
                  /\ t.fetched[n].seed <= t.i
            /\ t.pc = "fetching" => t.i \in 1..Len(t.urls)
            /\ \A r1, r2 \in DOMAIN t.returned :
                  r1 < r2 => t.returned[r1].seed < t.returned[r2].seed
            /\ \A r \in DOMAIN t.returned :
                  /\ t.returned[r].seed < t.i
                  /\ \A d \in DOMAIN t.returned[r].documents :
                        LET id == t.returned[r].documents[d].id
                        IN  /\ id[1] = t.job_id
                            /\ id[2] \in DOMAIN t.fetched
                            /\ t.fetched[id[2]].seed = t.returned[r].seed
                            /\ t.fetched[id[2]].url = t.returned[r].documents[d].url
            /\ Len(t.returned) + Len(SeedErrors(t)) = SeedsEnded(t)
            /\ job.results = Documents(t.returned)

\* a job of two seeds whose calls both returned a document, all of it in
\* the results, the first seed's first
C35_Witness ==
    /\ Len(tasks) = 1
    /\ Len(tasks[1].returned) = 2
    /\ tasks[1].urls[1] # tasks[1].urls[2]
    /\ Len(indexing_jobs[1].results) = 2
    /\ indexing_jobs[1].results[1].url = tasks[1].urls[1]
    /\ indexing_jobs[1].results[2].url = tasks[1].urls[2]

\* the fetches of url in the traversal of the seed-th seed
FetchesOf(t, seed, url) ==
    {n \in DOMAIN t.fetched : t.fetched[n].seed = seed /\ t.fetched[n].url = url}

\* C36 (as claimed): the visited set a traversal ends with holds URLs of
\* that traversal only; every URL reachable from the seed, also one that is
\* a seed twice or reachable from an earlier seed, is fetched once in the
\* traversal and is once in its output; and no two documents of the job's
\* results have the same id.
C36_VisitedSetPerTraversal ==
    \A k \in DOMAIN tasks :
        LET t == tasks[k]
            results == Documents(t.returned)
        IN  /\ \A r \in DOMAIN t.returned :
                  LET call == t.returned[r]
                  IN  /\ call.visited = Urls(call.documents)
                      /\ \A url \in call.visited : FetchesOf(t, call.seed, url) # {}
                      /\ \A url \in Reachable(t, t.urls[call.seed]) :
                            /\ Cardinality(FetchesOf(t, call.seed, url)) = 1
                            /\ Cardinality({d \in DOMAIN call.documents :
                                                call.documents[d].url = url}) = 1
            /\ \A d1, d2 \in DOMAIN results :
                  d1 # d2 => results[d1].id # results[d2].id

----------------------------------------------------------------------------
(* Properties of the endpoints *)

\* the step is a call of the results endpoint for a job the table has
HandOff ==
    /\ ret'.op = "get_url_indexing_results"
    /\ JobIndex(indexing_jobs, ret'.args[1]) # 0

\* the results of the job of that call
HandedOff == indexing_jobs[JobIndex(indexing_jobs, ret'.args[1])].results

\* C37: only a call of the results endpoint changes the index, never a step
\* of the background task; the call leaves in the index, for every document
\* of the job's results at that moment, one entry under the document's id
\* with its content and metadata, and one embedding; it adds no other id
\* and removes none; when every document was pushed before, the ids in the
\* index stay as they were; and after a call on a completed or failed job
\* the entries of the index are those of the job's results, one each.
C37_HandOffIdempotent ==
    [][/\ ret'.op # "get_url_indexing_results" => UNCHANGED <<documents, embeddings, hash>>
       /\ HandOff =>
             /\ \A d \in DOMAIN HandedOff :
                   LET doc == HandedOff[d]
                   IN  /\ Cardinality({n \in DOMAIN documents' :
                                           documents'[n].id = doc.id}) = 1
                       /\ Cardinality({n \in DOMAIN embeddings' :
                                           embeddings'[n].id = doc.id}) = 1
                       /\ EntryOf(documents', doc.id).content = PageText(doc.url)
                       /\ EntryOf(documents', doc.id).metadata.url = doc.url
                       /\ EntryOf(embeddings', doc.id).embedding =
                             _generate_simple_embedding(hash, PageText(doc.url))
             /\ KeysOf(documents') = KeysOf(documents) \cup {HandedOff[d].id : d \in DOMAIN HandedOff}
             /\ KeysOf(embeddings') = KeysOf(documents')
             /\ (\A d \in DOMAIN HandedOff : HandedOff[d].id \in KeysOf(documents)) =>
                   /\ Ids(documents') = Ids(documents)
                   /\ Ids(embeddings') = Ids(embeddings)
             /\ StatusOf(ret'.args[1]) \in {"completed", "failed"} =>
                   /\ Len(documents') = Len(HandedOff)
                   /\ KeysOf(documents') = {HandedOff[d].id : d \in DOMAIN HandedOff}
             /\ ret'.value[1].status_code = 200
             /\ ret'.value[1].body.documents = HandedOff
             /\ UNCHANGED <<indexing_jobs, tasks>>]_vars

\* a call of the results endpoint on a completed job with two documents of
\* the same URL, after a call that pushed the first of them while the job
\* was running: the index has the two entries, the older one first
C37_Witness ==
    /\ ret.op = "get_url_indexing_results"
    /\ StatusOf(1) = "completed"
    /\ Len(indexing_jobs[1].results) = 2
    /\ indexing_jobs[1].results[1].url = indexing_jobs[1].results[2].url
    /\ Ids(documents) = Ids(indexing_jobs[1].results)
    /\ Len(embeddings) = 2

\* C38 (as claimed): the status and the results endpoint answer an unknown
\* job id with status 404 and detail 'Job not found', and the call leaves
\* the job table and the vector index as they were.
C38_UnknownJobIs404 ==
    [][(/\ ret'.op \in {"get_url_indexing_status", "get_url_indexing_results"}
        /\ JobIndex(indexing_jobs, ret'.args[1]) = 0) =>
          /\ ret'.value[1].status_code = 404
          /\ ret'.value[1].body.detail = "Job not found"
          /\ UNCHANGED <<indexing_jobs, tasks, documents, embeddings, hash>>]_vars

====
